---- MODULE Spec2Model ----
\* TinyEMU SDL display driver (sdl.c) and its scancode table (sdl2-keymap):
\* the refresh driver, the input event dispatcher, the framebuffer presenter
\* and the PC-speaker tone generator, as a state machine.
EXTENDS Integers, Sequences, FiniteSets, TLC

\* ---------------------------------------------------------------------------
\* Scancode translation table
\* ---------------------------------------------------------------------------

\* Size of keymap[] and of key_pressed[] (sdl2-keymap.h): the host's number of
\* scancodes.
NR_KEYS == 512

\* Host scancodes (SDL_Scancode values) used by the table.
SDL_SCANCODE_UNKNOWN == 0
SDL_SCANCODE_A == 4
SDL_SCANCODE_B == 5
SDL_SCANCODE_C == 6
SDL_SCANCODE_D == 7
SDL_SCANCODE_E == 8
SDL_SCANCODE_F == 9
SDL_SCANCODE_G == 10
SDL_SCANCODE_H == 11
SDL_SCANCODE_I == 12
SDL_SCANCODE_J == 13
SDL_SCANCODE_K == 14
SDL_SCANCODE_L == 15
SDL_SCANCODE_M == 16
SDL_SCANCODE_N == 17
SDL_SCANCODE_O == 18
SDL_SCANCODE_P == 19
SDL_SCANCODE_Q == 20
SDL_SCANCODE_R == 21
SDL_SCANCODE_S == 22
SDL_SCANCODE_T == 23
SDL_SCANCODE_U == 24
SDL_SCANCODE_V == 25
SDL_SCANCODE_W == 26
SDL_SCANCODE_X == 27
SDL_SCANCODE_Y == 28
SDL_SCANCODE_Z == 29
SDL_SCANCODE_1 == 30
SDL_SCANCODE_2 == 31
SDL_SCANCODE_3 == 32
SDL_SCANCODE_4 == 33
SDL_SCANCODE_5 == 34
SDL_SCANCODE_6 == 35
SDL_SCANCODE_7 == 36
SDL_SCANCODE_8 == 37
SDL_SCANCODE_9 == 38
SDL_SCANCODE_0 == 39
SDL_SCANCODE_RETURN == 40
SDL_SCANCODE_ESCAPE == 41
SDL_SCANCODE_BACKSPACE == 42
SDL_SCANCODE_TAB == 43
SDL_SCANCODE_SPACE == 44
SDL_SCANCODE_MINUS == 45
SDL_SCANCODE_EQUALS == 46
SDL_SCANCODE_LEFTBRACKET == 47
SDL_SCANCODE_RIGHTBRACKET == 48
SDL_SCANCODE_BACKSLASH == 49
SDL_SCANCODE_NONUSHASH == 50
SDL_SCANCODE_SEMICOLON == 51
SDL_SCANCODE_APOSTROPHE == 52
SDL_SCANCODE_GRAVE == 53
SDL_SCANCODE_COMMA == 54
SDL_SCANCODE_PERIOD == 55
SDL_SCANCODE_SLASH == 56
SDL_SCANCODE_CAPSLOCK == 57
SDL_SCANCODE_F1 == 58
SDL_SCANCODE_F2 == 59
SDL_SCANCODE_F3 == 60
SDL_SCANCODE_F4 == 61
SDL_SCANCODE_F5 == 62
SDL_SCANCODE_F6 == 63
SDL_SCANCODE_F7 == 64
SDL_SCANCODE_F8 == 65
SDL_SCANCODE_F9 == 66
SDL_SCANCODE_F10 == 67
SDL_SCANCODE_F11 == 68
SDL_SCANCODE_F12 == 69
SDL_SCANCODE_PRINTSCREEN == 70
SDL_SCANCODE_SCROLLLOCK == 71
SDL_SCANCODE_PAUSE == 72
SDL_SCANCODE_INSERT == 73
SDL_SCANCODE_HOME == 74
SDL_SCANCODE_PAGEUP == 75
SDL_SCANCODE_DELETE == 76
SDL_SCANCODE_END == 77
SDL_SCANCODE_PAGEDOWN == 78
SDL_SCANCODE_RIGHT == 79
SDL_SCANCODE_LEFT == 80
SDL_SCANCODE_DOWN == 81
SDL_SCANCODE_UP == 82
SDL_SCANCODE_NUMLOCKCLEAR == 83
SDL_SCANCODE_KP_DIVIDE == 84
SDL_SCANCODE_KP_MULTIPLY == 85
SDL_SCANCODE_KP_MINUS == 86
SDL_SCANCODE_KP_PLUS == 87
SDL_SCANCODE_KP_ENTER == 88
SDL_SCANCODE_KP_1 == 89
SDL_SCANCODE_KP_2 == 90
SDL_SCANCODE_KP_3 == 91
SDL_SCANCODE_KP_4 == 92
SDL_SCANCODE_KP_5 == 93
SDL_SCANCODE_KP_6 == 94
SDL_SCANCODE_KP_7 == 95
SDL_SCANCODE_KP_8 == 96
SDL_SCANCODE_KP_9 == 97
SDL_SCANCODE_KP_0 == 98
SDL_SCANCODE_KP_PERIOD == 99
SDL_SCANCODE_NONUSBACKSLASH == 100
SDL_SCANCODE_POWER == 102
SDL_SCANCODE_KP_EQUALS == 103
SDL_SCANCODE_F13 == 104
SDL_SCANCODE_F14 == 105
SDL_SCANCODE_F15 == 106
SDL_SCANCODE_F16 == 107
SDL_SCANCODE_F17 == 108
SDL_SCANCODE_F18 == 109
SDL_SCANCODE_F19 == 110
SDL_SCANCODE_F20 == 111
SDL_SCANCODE_F21 == 112
SDL_SCANCODE_F22 == 113
SDL_SCANCODE_F23 == 114
SDL_SCANCODE_F24 == 115
SDL_SCANCODE_HELP == 117
SDL_SCANCODE_MENU == 118
SDL_SCANCODE_SELECT == 119
SDL_SCANCODE_STOP == 120
SDL_SCANCODE_AGAIN == 121
SDL_SCANCODE_UNDO == 122
SDL_SCANCODE_CUT == 123
SDL_SCANCODE_COPY == 124
SDL_SCANCODE_PASTE == 125
SDL_SCANCODE_FIND == 126
SDL_SCANCODE_MUTE == 127
SDL_SCANCODE_VOLUMEUP == 128
SDL_SCANCODE_VOLUMEDOWN == 129
SDL_SCANCODE_KP_COMMA == 133
SDL_SCANCODE_KP_EQUALSAS400 == 134
SDL_SCANCODE_ALTERASE == 153
SDL_SCANCODE_SYSREQ == 154
SDL_SCANCODE_CANCEL == 155
SDL_SCANCODE_CLEAR == 156
SDL_SCANCODE_RETURN2 == 158
SDL_SCANCODE_LCTRL == 224
SDL_SCANCODE_LSHIFT == 225
SDL_SCANCODE_LALT == 226
SDL_SCANCODE_LGUI == 227
SDL_SCANCODE_RCTRL == 228
SDL_SCANCODE_RSHIFT == 229
SDL_SCANCODE_RALT == 230

\* Guest keycodes (Linux input-event codes) used by the table.
KEY_RESERVED == 0
KEY_A == 30
KEY_B == 48
KEY_C == 46
KEY_D == 32
KEY_E == 18
KEY_F == 33
KEY_G == 34
KEY_H == 35
KEY_I == 23
KEY_J == 36
KEY_K == 37
KEY_L == 38
KEY_M == 50
KEY_N == 49
KEY_O == 24
KEY_P == 25
KEY_Q == 16
KEY_R == 19
KEY_S == 31
KEY_T == 20
KEY_U == 22
KEY_V == 47
KEY_W == 17
KEY_X == 45
KEY_Y == 21
KEY_Z == 44
KEY_1 == 2
KEY_2 == 3
KEY_3 == 4
KEY_4 == 5
KEY_5 == 6
KEY_6 == 7
KEY_7 == 8
KEY_8 == 9
KEY_9 == 10
KEY_0 == 11
KEY_ENTER == 28
KEY_ESC == 1
KEY_BACKSPACE == 14
KEY_TAB == 15
KEY_SPACE == 57
KEY_MINUS == 12
KEY_EQUAL == 13
KEY_LEFTBRACE == 26
KEY_RIGHTBRACE == 27
KEY_BACKSLASH == 43
KEY_SEMICOLON == 39
KEY_APOSTROPHE == 40
KEY_GRAVE == 41
KEY_COMMA == 51
KEY_DOT == 52
KEY_SLASH == 53
KEY_CAPSLOCK == 58
KEY_F1 == 59
KEY_F2 == 60
KEY_F3 == 61
KEY_F4 == 62
KEY_F5 == 63
KEY_F6 == 64
KEY_F7 == 65
KEY_F8 == 66
KEY_F9 == 67
KEY_F10 == 68
KEY_F11 == 87
KEY_F12 == 88
KEY_PRINT == 210
KEY_SCROLLLOCK == 70
KEY_PAUSE == 119
KEY_INSERT == 110
KEY_HOME == 102
KEY_PAGEUP == 104
KEY_DELETE == 111
KEY_END == 107
KEY_PAGEDOWN == 109
KEY_RIGHT == 106
KEY_LEFT == 105
KEY_DOWN == 108
KEY_UP == 103
KEY_NUMLOCK == 69
KEY_KPSLASH == 98
KEY_KPASTERISK == 55
KEY_KPMINUS == 74
KEY_KPPLUS == 78
KEY_KPENTER == 96
KEY_KP1 == 79
KEY_KP2 == 80
KEY_KP3 == 81
KEY_KP4 == 75
KEY_KP5 == 76
KEY_KP6 == 77
KEY_KP7 == 71
KEY_KP8 == 72
KEY_KP9 == 73
KEY_KP0 == 82
KEY_KPDOT == 83
KEY_POWER == 116
KEY_KPEQUAL == 117
KEY_F13 == 183
KEY_F14 == 184
KEY_F15 == 185
KEY_F16 == 186
KEY_F17 == 187
KEY_F18 == 188
KEY_F19 == 189
KEY_F20 == 190
KEY_F21 == 191
KEY_F22 == 192
KEY_F23 == 193
KEY_F24 == 194
KEY_HELP == 138
KEY_MENU == 139
KEY_SELECT == 353
KEY_STOP == 128
KEY_AGAIN == 129
KEY_UNDO == 131
KEY_CUT == 137
KEY_COPY == 133
KEY_PASTE == 135
KEY_FIND == 136
KEY_MUTE == 113
KEY_VOLUMEUP == 115
KEY_VOLUMEDOWN == 114
KEY_KPCOMMA == 121
KEY_ALTERASE == 222
KEY_SYSRQ == 99
KEY_CANCEL == 223
KEY_CLEAR == 355
KEY_LEFTCTRL == 29
KEY_LEFTSHIFT == 42
KEY_LEFTALT == 56
KEY_LEFTMETA == 125
KEY_RIGHTCTRL == 97
KEY_RIGHTSHIFT == 54
KEY_RIGHTALT == 100

\* The designated initialisers of keymap[], in source order: <<index, value>>.
keymapInit ==
  <<
    <<SDL_SCANCODE_UNKNOWN, KEY_RESERVED>>,
    <<SDL_SCANCODE_A, KEY_A>>,
    <<SDL_SCANCODE_B, KEY_B>>,
    <<SDL_SCANCODE_C, KEY_C>>,
    <<SDL_SCANCODE_D, KEY_D>>,
    <<SDL_SCANCODE_E, KEY_E>>,
    <<SDL_SCANCODE_F, KEY_F>>,
    <<SDL_SCANCODE_G, KEY_G>>,
    <<SDL_SCANCODE_H, KEY_H>>,
    <<SDL_SCANCODE_I, KEY_I>>,
    <<SDL_SCANCODE_J, KEY_J>>,
    <<SDL_SCANCODE_K, KEY_K>>,
    <<SDL_SCANCODE_L, KEY_L>>,
    <<SDL_SCANCODE_M, KEY_M>>,
    <<SDL_SCANCODE_N, KEY_N>>,
    <<SDL_SCANCODE_O, KEY_O>>,
    <<SDL_SCANCODE_P, KEY_P>>,
    <<SDL_SCANCODE_Q, KEY_Q>>,
    <<SDL_SCANCODE_R, KEY_R>>,
    <<SDL_SCANCODE_S, KEY_S>>,
    <<SDL_SCANCODE_T, KEY_T>>,
    <<SDL_SCANCODE_U, KEY_U>>,
    <<SDL_SCANCODE_V, KEY_V>>,
    <<SDL_SCANCODE_W, KEY_W>>,
    <<SDL_SCANCODE_X, KEY_X>>,
    <<SDL_SCANCODE_Y, KEY_Y>>,
    <<SDL_SCANCODE_Z, KEY_Z>>,
    <<SDL_SCANCODE_1, KEY_1>>,
    <<SDL_SCANCODE_2, KEY_2>>,
    <<SDL_SCANCODE_3, KEY_3>>,
    <<SDL_SCANCODE_4, KEY_4>>,
    <<SDL_SCANCODE_5, KEY_5>>,
    <<SDL_SCANCODE_6, KEY_6>>,
    <<SDL_SCANCODE_7, KEY_7>>,
    <<SDL_SCANCODE_8, KEY_8>>,
    <<SDL_SCANCODE_9, KEY_9>>,
    <<SDL_SCANCODE_0, KEY_0>>,
    <<SDL_SCANCODE_RETURN, KEY_ENTER>>,
    <<SDL_SCANCODE_ESCAPE, KEY_ESC>>,
    <<SDL_SCANCODE_BACKSPACE, KEY_BACKSPACE>>,
    <<SDL_SCANCODE_TAB, KEY_TAB>>,
    <<SDL_SCANCODE_SPACE, KEY_SPACE>>,
    <<SDL_SCANCODE_MINUS, KEY_MINUS>>,
    <<SDL_SCANCODE_EQUALS, KEY_EQUAL>>,
    <<SDL_SCANCODE_LEFTBRACKET, KEY_LEFTBRACE>>,
    <<SDL_SCANCODE_RIGHTBRACKET, KEY_RIGHTBRACE>>,
    <<SDL_SCANCODE_BACKSLASH, KEY_BACKSLASH>>,
    <<SDL_SCANCODE_NONUSHASH, KEY_BACKSLASH>>,
    <<SDL_SCANCODE_SEMICOLON, KEY_SEMICOLON>>,
    <<SDL_SCANCODE_APOSTROPHE, KEY_APOSTROPHE>>,
    <<SDL_SCANCODE_GRAVE, KEY_GRAVE>>,
    <<SDL_SCANCODE_COMMA, KEY_COMMA>>,
    <<SDL_SCANCODE_PERIOD, KEY_DOT>>,
    <<SDL_SCANCODE_SLASH, KEY_SLASH>>,
    <<SDL_SCANCODE_CAPSLOCK, KEY_CAPSLOCK>>,
    <<SDL_SCANCODE_F1, KEY_F1>>,
    <<SDL_SCANCODE_F2, KEY_F2>>,
    <<SDL_SCANCODE_F3, KEY_F3>>,
    <<SDL_SCANCODE_F4, KEY_F4>>,
    <<SDL_SCANCODE_F5, KEY_F5>>,
    <<SDL_SCANCODE_F6, KEY_F6>>,
    <<SDL_SCANCODE_F7, KEY_F7>>,
    <<SDL_SCANCODE_F8, KEY_F8>>,
    <<SDL_SCANCODE_F9, KEY_F9>>,
    <<SDL_SCANCODE_F10, KEY_F10>>,
    <<SDL_SCANCODE_F11, KEY_F11>>,
    <<SDL_SCANCODE_F12, KEY_F12>>,
    <<SDL_SCANCODE_PRINTSCREEN, KEY_PRINT>>,
    <<SDL_SCANCODE_SCROLLLOCK, KEY_SCROLLLOCK>>,
    <<SDL_SCANCODE_PAUSE, KEY_PAUSE>>,
    <<SDL_SCANCODE_INSERT, KEY_INSERT>>,
    <<SDL_SCANCODE_HOME, KEY_HOME>>,
    <<SDL_SCANCODE_PAGEUP, KEY_PAGEUP>>,
    <<SDL_SCANCODE_DELETE, KEY_DELETE>>,
    <<SDL_SCANCODE_END, KEY_END>>,
    <<SDL_SCANCODE_PAGEDOWN, KEY_PAGEDOWN>>,
    <<SDL_SCANCODE_RIGHT, KEY_RIGHT>>,
    <<SDL_SCANCODE_LEFT, KEY_LEFT>>,
    <<SDL_SCANCODE_DOWN, KEY_DOWN>>,
    <<SDL_SCANCODE_UP, KEY_UP>>,
    <<SDL_SCANCODE_NUMLOCKCLEAR, KEY_NUMLOCK>>,
    <<SDL_SCANCODE_KP_DIVIDE, KEY_KPSLASH>>,
    <<SDL_SCANCODE_KP_MULTIPLY, KEY_KPASTERISK>>,
    <<SDL_SCANCODE_KP_MINUS, KEY_KPMINUS>>,
    <<SDL_SCANCODE_KP_PLUS, KEY_KPPLUS>>,
    <<SDL_SCANCODE_KP_ENTER, KEY_KPENTER>>,
    <<SDL_SCANCODE_KP_1, KEY_KP1>>,
    <<SDL_SCANCODE_KP_2, KEY_KP2>>,
    <<SDL_SCANCODE_KP_3, KEY_KP3>>,
    <<SDL_SCANCODE_KP_4, KEY_KP4>>,
    <<SDL_SCANCODE_KP_5, KEY_KP5>>,
    <<SDL_SCANCODE_KP_6, KEY_KP6>>,
    <<SDL_SCANCODE_KP_7, KEY_KP7>>,
    <<SDL_SCANCODE_KP_8, KEY_KP8>>,
    <<SDL_SCANCODE_KP_9, KEY_KP9>>,
    <<SDL_SCANCODE_KP_0, KEY_KP0>>,
    <<SDL_SCANCODE_KP_PERIOD, KEY_KPDOT>>,
    <<SDL_SCANCODE_NONUSBACKSLASH, KEY_BACKSLASH>>,
    <<SDL_SCANCODE_POWER, KEY_POWER>>,
    <<SDL_SCANCODE_KP_EQUALS, KEY_KPEQUAL>>,
    <<SDL_SCANCODE_F13, KEY_F13>>,
    <<SDL_SCANCODE_F14, KEY_F14>>,
    <<SDL_SCANCODE_F15, KEY_F15>>,
    <<SDL_SCANCODE_F16, KEY_F16>>,
    <<SDL_SCANCODE_F17, KEY_F17>>,
    <<SDL_SCANCODE_F18, KEY_F18>>,
    <<SDL_SCANCODE_F19, KEY_F19>>,
    <<SDL_SCANCODE_F20, KEY_F20>>,
    <<SDL_SCANCODE_F21, KEY_F21>>,
    <<SDL_SCANCODE_F22, KEY_F22>>,
    <<SDL_SCANCODE_F23, KEY_F23>>,
    <<SDL_SCANCODE_F24, KEY_F24>>,
    <<SDL_SCANCODE_HELP, KEY_HELP>>,
    <<SDL_SCANCODE_MENU, KEY_MENU>>,
    <<SDL_SCANCODE_SELECT, KEY_SELECT>>,
    <<SDL_SCANCODE_STOP, KEY_STOP>>,
    <<SDL_SCANCODE_AGAIN, KEY_AGAIN>>,
    <<SDL_SCANCODE_UNDO, KEY_UNDO>>,
    <<SDL_SCANCODE_CUT, KEY_CUT>>,
    <<SDL_SCANCODE_COPY, KEY_COPY>>,
    <<SDL_SCANCODE_PASTE, KEY_PASTE>>,
    <<SDL_SCANCODE_FIND, KEY_FIND>>,
    <<SDL_SCANCODE_MUTE, KEY_MUTE>>,
    <<SDL_SCANCODE_VOLUMEUP, KEY_VOLUMEUP>>,
    <<SDL_SCANCODE_VOLUMEDOWN, KEY_VOLUMEDOWN>>,
    <<SDL_SCANCODE_KP_COMMA, KEY_KPCOMMA>>,
    <<SDL_SCANCODE_KP_EQUALSAS400, KEY_KPEQUAL>>,
    <<SDL_SCANCODE_ALTERASE, KEY_ALTERASE>>,
    <<SDL_SCANCODE_SYSREQ, KEY_SYSRQ>>,
    <<SDL_SCANCODE_CANCEL, KEY_CANCEL>>,
    <<SDL_SCANCODE_CLEAR, KEY_CLEAR>>,
    <<SDL_SCANCODE_RETURN2, KEY_ENTER>>,
    <<SDL_SCANCODE_LCTRL, KEY_LEFTCTRL>>,
    <<SDL_SCANCODE_LSHIFT, KEY_LEFTSHIFT>>,
    <<SDL_SCANCODE_LALT, KEY_LEFTALT>>,
    <<SDL_SCANCODE_LGUI, KEY_LEFTMETA>>,
    <<SDL_SCANCODE_RCTRL, KEY_RIGHTCTRL>>,
    <<SDL_SCANCODE_RSHIFT, KEY_RIGHTSHIFT>>,
    <<SDL_SCANCODE_RALT, KEY_RIGHTALT>>
  >>

\* Element i of a zero-initialised C array after its designated initialisers
\* have been applied in order (a later initialiser of an index wins).
ArrayElement(init, i) ==
  LET at == {n \in 1..Len(init) : init[n][1] = i}
  IN IF at = {} THEN 0
     ELSE init[CHOOSE n \in at : \A m \in at : m <= n][2]

keymap_RETURN2_KPENTER ==
  [s \in 0..(NR_KEYS - 1) |->
     IF s = SDL_SCANCODE_RETURN2 THEN KEY_KPENTER
     ELSE ArrayElement(keymapInit, s)]

\* unsigned short keymap[NR_KEYS]
keymap == [s \in 0..(NR_KEYS - 1) |-> ArrayElement(keymapInit, s)]

\* What a read of keymap[] outside the array can yield: some unsigned short.
OobRead == {0, KEY_A, SDL_SCANCODE_RALT, 65535}

\* sdl_get_keycode as a call frame: the scancode, whether keymap[] was indexed
\* and where, and the value returned.
NoCall == [scancode |-> 0, indexed |-> FALSE, index |-> 0, ret |-> 0]

\* The set of outcomes of sdl_get_keycode(ev) for ev->keysym.scancode = scancode:
\* only the upper bound is tested before the table is indexed.
sdl_get_keycode(scancode) ==
  IF scancode < NR_KEYS
  THEN IF scancode \in DOMAIN keymap
       THEN {[scancode |-> scancode, indexed |-> TRUE, index |-> scancode,
              ret |-> keymap[scancode]]}
       ELSE {[scancode |-> scancode, indexed |-> TRUE, index |-> scancode,
              ret |-> r] : r \in OobRead}
  ELSE {[scancode |-> scancode, indexed |-> FALSE, index |-> 0, ret |-> 0]}

\* ---------------------------------------------------------------------------
\* Bounds of the model
\* ---------------------------------------------------------------------------

\* Host events that may wait in the SDL event queue at once.
MaxQueue == 2
\* Guest geometry changes in one run.
MaxResize == 1
\* Consecutive reset signals counted.
MaxResetRun == 2
\* Scancodes probed below 0 and at or above NR_KEYS.
MaxScanProbe == 4

\* ---------------------------------------------------------------------------
\* State
\* ---------------------------------------------------------------------------

VARIABLES
  pc,            \* position of the main context
  exit_status,   \* -1 while the process runs, else the argument of exit()
  fb_dev,        \* m->fb_dev: the guest framebuffer device, if configured
  mouse_abs,     \* what vm_mouse_is_absolute(m) reports
  evq,           \* SDL's queue of pending host events
  screen_width, screen_height,
  window,        \* the SDL window created by sdl_init
  fb_surface, fb_width, fb_height, fb_stride,
  renderer, texture,
  live,          \* number of live SDL surfaces, renderers and textures
  resizes,       \* guest geometry changes so far
  key_pressed,
  kc,            \* the last call of sdl_get_keycode
  vm_keys_down,  \* guest keycodes whose last vm_send_key_event was a press
  reset_run,     \* reset signals handled since the last key-press event
  last,          \* the last step of the main context and what it delivered
  beepfreq,
  beep_arg,      \* the argument of the beep() call in progress
  v,             \* audio_callback's static phase accumulator
  have,          \* the SDL_AudioSpec obtained by sdl_sound_init
  audio_lock,    \* owner of the lock of each open SDL audio device
  cb             \* the audio_callback invocation in progress, if any

vars ==
  <<pc, exit_status, fb_dev, mouse_abs, evq, screen_width, screen_height,
    window, fb_surface, fb_width, fb_height, fb_stride, renderer, texture,
    live, resizes, key_pressed, kc, vm_keys_down, reset_run, last, beepfreq,
    beep_arg, v, have, audio_lock, cb>>

displayVars ==
  <<fb_surface, fb_width, fb_height, fb_stride, renderer, texture, live>>
inputVars == <<key_pressed, kc, vm_keys_down, reset_run>>
audioVars == <<beepfreq, beep_arg, v, have, audio_lock, cb>>
initVars == <<screen_width, screen_height, window>>

\* --- host events (SDL_Event) ---
HostEvent(type, scancode, x, y, xrel, yrel, state) ==
  [type |-> type, scancode |-> scancode, x |-> x, y |-> y,
   xrel |-> xrel, yrel |-> yrel, state |-> state]
NoEvent == HostEvent("none", 0, 0, 0, 0, 0, 0)
KeyEvent(type, scancode) == HostEvent(type, scancode, 0, 0, 0, 0, 0)
MotionEvent(x, y, xrel, yrel, state) ==
  HostEvent("SDL_MOUSEMOTION", 0, x, y, xrel, yrel, state)

\* --- events delivered to the guest ---
\* vm_send_key_event(m, is_down, keycode)
GuestKey(is_down, keycode) ==
  [kind |-> "key", down |-> is_down, code |-> keycode,
   x |-> 0, y |-> 0, dz |-> 0, buttons |-> 0]
\* vm_send_mouse_event(m, x, y, dz, buttons)
GuestMouse(x, y, dz, buttons) ==
  [kind |-> "mouse", down |-> FALSE, code |-> 0,
   x |-> x, y |-> y, dz |-> dz, buttons |-> buttons]

\* --- guest framebuffer device and SDL resources ---
NoFbDev == [present |-> FALSE, width |-> 0, height |-> 0, stride |-> 0]
FbDev(w, h, s) == [present |-> TRUE, width |-> w, height |-> h, stride |-> s]
Geometries == {FbDev(640, 480, 2560), FbDev(800, 600, 3200)}

NullSurface == [ptr |-> 0, w |-> 0, h |-> 0, pitch |-> 0]
NullTexture == [ptr |-> 0, w |-> 0, h |-> 0]
NullRenderer == [ptr |-> 0]

\* --- the record of the last step ---
Step(op, ev, sent) ==
  [op |-> op, ev |-> ev, sent |-> sent,
   rect |-> <<0, 0, 0, 0>>, start |-> 0, pitch |-> 0, tex |-> NullTexture]

\* ---------------------------------------------------------------------------
\* Input event dispatcher
\* ---------------------------------------------------------------------------

\* The guest's view of the keyboard after a sequence of key events.
RECURSIVE VmKeysAfter(_, _)
VmKeysAfter(down, sent) ==
  IF sent = <<>> THEN down
  ELSE VmKeysAfter(IF Head(sent).kind # "key" THEN down
                   ELSE IF Head(sent).down THEN down \cup {Head(sent).code}
                   ELSE down \ {Head(sent).code},
                   Tail(sent))

sdl_reset_keys_flags_kept(pressed) ==
  LET order == [i \in 1..(NR_KEYS - 1) |-> i]
      hit == SelectSeq(order, LAMBDA i : pressed[i])
  IN [key_pressed |-> pressed,
      sent |-> [n \in 1..Len(hit) |-> GuestKey(FALSE, hit[n])]]

sdl_reset_keys_first_only(pressed) ==
  LET order == [i \in 1..(NR_KEYS - 1) |-> i]
      hit == SelectSeq(order, LAMBDA i : pressed[i])
  IN IF hit = <<>> THEN [key_pressed |-> pressed, sent |-> <<>>]
     ELSE [key_pressed |-> [pressed EXCEPT ![hit[1]] = FALSE],
           sent |-> <<GuestKey(FALSE, hit[1])>>]

\* sdl_reset_keys: for i = 1 .. NR_KEYS - 1 in ascending order, a pressed key
\* i is released to the guest and its flag cleared.
sdl_reset_keys(pressed) ==
  LET order == [i \in 1..(NR_KEYS - 1) |-> i]
      hit == SelectSeq(order, LAMBDA i : pressed[i])
  IN [key_pressed |-> [i \in DOMAIN pressed |->
                         IF i >= 1 THEN FALSE ELSE pressed[i]],
      sent |-> [n \in 1..Len(hit) |-> GuestKey(FALSE, hit[n])]]

sdl_handle_key_event_sticky(ev, keycode, pressed) ==
  IF keycode # 0
  THEN IF keycode = 58 \/ keycode = 69
       THEN [key_pressed |-> pressed,
             sent |-> <<GuestKey(TRUE, keycode), GuestKey(FALSE, keycode)>>]
       ELSE LET keypress == (ev.type = "SDL_KEYDOWN")
            IN [key_pressed |-> IF keycode < NR_KEYS
                                THEN [pressed EXCEPT ![keycode] = TRUE]
                                ELSE pressed,
                sent |-> <<GuestKey(keypress, keycode)>>]
  ELSE IF ev.type = "SDL_KEYUP"
       THEN sdl_reset_keys(pressed)
       ELSE [key_pressed |-> pressed, sent |-> <<>>]

sdl_handle_key_event_locks_forwarded(ev, keycode, pressed) ==
  IF keycode # 0
  THEN LET keypress == (ev.type = "SDL_KEYDOWN")
       IN [key_pressed |-> pressed,
           sent |-> <<GuestKey(keypress, keycode)>>]
  ELSE IF ev.type = "SDL_KEYUP"
       THEN sdl_reset_keys(pressed)
       ELSE [key_pressed |-> pressed, sent |-> <<>>]

sdl_handle_key_event_locks_ordinary(ev, keycode, pressed) ==
  IF keycode # 0
  THEN LET keypress == (ev.type = "SDL_KEYDOWN")
       IN [key_pressed |-> IF keycode < NR_KEYS
                           THEN [pressed EXCEPT ![keycode] = keypress]
                           ELSE pressed,
           sent |-> <<GuestKey(keypress, keycode)>>]
  ELSE IF ev.type = "SDL_KEYUP"
       THEN sdl_reset_keys(pressed)
       ELSE [key_pressed |-> pressed, sent |-> <<>>]

sdl_handle_key_event_reset_on_press(ev, keycode, pressed) ==
  IF keycode # 0
  THEN IF keycode = 58 \/ keycode = 69
       THEN [key_pressed |-> pressed,
             sent |-> <<GuestKey(TRUE, keycode), GuestKey(FALSE, keycode)>>]
       ELSE LET keypress == (ev.type = "SDL_KEYDOWN")
            IN [key_pressed |-> IF keycode < NR_KEYS
                                THEN [pressed EXCEPT ![keycode] = keypress]
                                ELSE pressed,
                sent |-> <<GuestKey(keypress, keycode)>>]
  ELSE sdl_reset_keys(pressed)

\* sdl_handle_key_event for host event ev whose scancode translated to
\* keycode: the new pressed table and the events sent to the guest.
sdl_handle_key_event(ev, keycode, pressed) ==
  IF keycode # 0
  THEN IF keycode = 58 \/ keycode = 69   \* 0x3a, 0x45
       THEN [key_pressed |-> pressed,
             sent |-> <<GuestKey(TRUE, keycode), GuestKey(FALSE, keycode)>>]
       ELSE LET keypress == (ev.type = "SDL_KEYDOWN")
            IN [key_pressed |-> IF keycode < NR_KEYS
                                THEN [pressed EXCEPT ![keycode] = keypress]
                                ELSE pressed,
                sent |-> <<GuestKey(keypress, keycode)>>]
  ELSE IF ev.type = "SDL_KEYUP"
       THEN sdl_reset_keys(pressed)
       ELSE [key_pressed |-> pressed, sent |-> <<>>]

\* C integer division (truncation toward zero), divisor > 0.
CDiv(a, b) == IF a >= 0 THEN a \div b ELSE -((-a) \div b)

\* state & SDL_BUTTON(n), SDL_BUTTON(n) being 1 << (n - 1)
ButtonHeld(state, n) == (state \div (2 ^ (n - 1))) % 2 = 1

sdl_send_mouse_event_height_for_x(x1, y1, dz, state, is_absolute, sw, sh) ==
  LET x == IF is_absolute THEN CDiv(x1 * 32768, sh) ELSE x1
      y == IF is_absolute THEN CDiv(y1 * 32768, sh) ELSE y1
  IN GuestMouse(x, y, dz, 0)

\* sdl_send_mouse_event: the event sent to the guest. The int product
\* x1 * 32768 is exact for |x1| < 65536, which covers every coordinate used
\* here (SDL windows are at most 16384 pixels wide or high).
\* (SDL_BUTTON_LEFT 1, SDL_BUTTON_MIDDLE 2, SDL_BUTTON_RIGHT 3).
sdl_send_mouse_event(x1, y1, dz, state, is_absolute, sw, sh) ==
  LET buttons == (IF ButtonHeld(state, 1) THEN 1 ELSE 0)
               + (IF ButtonHeld(state, 3) THEN 2 ELSE 0)
               + (IF ButtonHeld(state, 2) THEN 4 ELSE 0)
      x == IF is_absolute THEN CDiv(x1 * 32768, sw) ELSE x1
      y == IF is_absolute THEN CDiv(y1 * 32768, sh) ELSE y1
  IN GuestMouse(x, y, dz, buttons)

\* sdl_handle_mouse_motion_event
sdl_handle_mouse_motion_event(ev, is_absolute, sw, sh) ==
  LET x == IF is_absolute THEN ev.x ELSE ev.xrel
      y == IF is_absolute THEN ev.y ELSE ev.yrel
  IN sdl_send_mouse_event(x, y, 0, ev.state, is_absolute, sw, sh)

\* ---------------------------------------------------------------------------
\* Initial state: after sdl_init(width, height)
\* ---------------------------------------------------------------------------

SAMPLERATE == 44100
AMPLITUDE == 8000
\* SDL_LockAudio() is SDL_LockAudioDevice(1): the device of SDL_OpenAudio.
LegacyAudioDevice == 1
\* SDL_OpenAudioDevice returns ids from 2 up; the first device opened gets 2.
dev == 2

NoCallback ==
  [running |-> FALSE, i |-> 0, stream |-> <<>>, reads |-> {}, v0 |-> 0]

InitWith(sizes) ==
  /\ pc = "main"
  /\ exit_status = -1
  /\ fb_dev = NoFbDev
  /\ mouse_abs = FALSE
  /\ evq = <<>>
  /\ \E s \in sizes :
       /\ screen_width = s[1]
       /\ screen_height = s[2]
       /\ window = [w |-> s[1], h |-> s[2]]
  /\ fb_surface = NullSurface
  /\ fb_width = 0 /\ fb_height = 0 /\ fb_stride = 0
  /\ renderer = NullRenderer
  /\ texture = NullTexture
  /\ live = [surface |-> 0, renderer |-> 0, texture |-> 0]
  /\ resizes = 0
  /\ key_pressed = [k \in 0..(NR_KEYS - 1) |-> FALSE]
  /\ kc = NoCall
  /\ vm_keys_down = {}
  /\ reset_run = 0
  /\ last = Step("sdl_init", NoEvent, <<>>)
  /\ beepfreq = 0
  /\ beep_arg = 0
  /\ v = 0
  /\ have = [freq |-> SAMPLERATE]
  /\ audio_lock = [d \in {dev} |-> "none"]
  /\ cb = NoCallback

Init == InitWith({<<640, 480>>})

\* ---------------------------------------------------------------------------
\* Environment: the guest machine and the host's event source
\* ---------------------------------------------------------------------------

\* The machine gets a framebuffer device (m->fb_dev becomes non-NULL).
GuestAttachFb ==
  /\ pc = "main"
  /\ ~fb_dev.present
  /\ fb_dev' \in Geometries
  /\ UNCHANGED <<pc, exit_status, mouse_abs, evq, initVars, displayVars,
                 resizes, inputVars, last, audioVars>>

\* The guest reprograms its framebuffer between two ticks.
GuestResize ==
  /\ pc = "main"
  /\ fb_dev.present
  /\ resizes < MaxResize
  /\ fb_dev' \in Geometries \ {fb_dev}
  /\ resizes' = resizes + 1
  /\ UNCHANGED <<pc, exit_status, mouse_abs, evq, initVars, displayVars,
                 inputVars, last, audioVars>>

\* The guest switches between a relative and an absolute pointing device.
GuestSetMouseMode ==
  /\ pc = "main"
  /\ mouse_abs' = ~mouse_abs
  /\ UNCHANGED <<pc, exit_status, fb_dev, evq, initVars, displayVars, resizes,
                 inputVars, last, audioVars>>

\* The host queues an input event; SDL_PollEvent will return it in order.
HostPost(events) ==
  /\ pc # "exited"
  /\ Len(evq) < MaxQueue
  /\ \E e \in events : evq' = Append(evq, e)
  /\ UNCHANGED <<pc, exit_status, fb_dev, mouse_abs, initVars, displayVars,
                 resizes, inputVars, last, audioVars>>

\* ---------------------------------------------------------------------------
\* Framebuffer presenter
\* ---------------------------------------------------------------------------

NeedsRealloc_first_only == fb_surface.ptr = 0

\* The test of sdl_update_fb_surface: no surface yet, or the cached geometry
\* differs from the device's.
NeedsRealloc ==
  \/ fb_surface.ptr = 0
  \/ fb_width # fb_dev.width
  \/ fb_height # fb_dev.height
  \/ fb_stride # fb_dev.stride

FatalOutcomes_texture_unchecked == {"no_surface", "no_renderer"}

\* The creation results sdl_update_fb_surface tests for NULL and answers with
\* exit(1).
FatalOutcomes == {"no_surface", "no_renderer", "no_texture"}

\* sdl_update_fb_surface(m->fb_dev), reached from sdl_refresh. Each SDL
\* creation call either succeeds or returns NULL, and NULL is fatal.
sdl_update_fb_surface ==
  IF NeedsRealloc
  THEN \E outcome \in {"ok", "no_surface", "no_renderer", "no_texture"} :
         LET freed == IF fb_surface.ptr # 0 THEN 1 ELSE 0
             gotSurface == outcome # "no_surface"
             gotRenderer == outcome \in {"ok", "no_texture"}
             gotTexture == outcome = "ok"
         IN /\ fb_width' = fb_dev.width
            /\ fb_height' = fb_dev.height
            /\ fb_stride' = fb_dev.stride
            /\ fb_surface' = IF gotSurface
                             THEN [ptr |-> resizes + 1, w |-> fb_dev.width,
                                   h |-> fb_dev.height, pitch |-> fb_dev.stride]
                             ELSE NullSurface
            /\ renderer' = IF gotRenderer THEN [ptr |-> resizes + 1]
                           ELSE IF gotSurface THEN NullRenderer
                           ELSE renderer
            /\ texture' = IF gotTexture
                          THEN [ptr |-> resizes + 1, w |-> fb_dev.width,
                                h |-> fb_dev.height]
                          ELSE IF gotRenderer THEN NullTexture
                          ELSE texture
            /\ live' = [surface |-> live.surface - freed
                                    + (IF gotSurface THEN 1 ELSE 0),
                        renderer |-> live.renderer
                                    + (IF gotRenderer THEN 1 ELSE 0),
                        texture |-> live.texture
                                    + (IF gotTexture THEN 1 ELSE 0)]
            /\ pc' = IF outcome \in FatalOutcomes THEN "exited" ELSE "present"
            /\ exit_status' = IF outcome \in FatalOutcomes THEN 1
                               ELSE exit_status
  ELSE /\ pc' = "present"
       /\ UNCHANGED <<displayVars, exit_status>>

\* Dirty rectangles <<x, y, w, h>> the device's refresh may report.
DirtyRects == {<<0, 0, fb_dev.width, fb_dev.height>>, <<16, 8, 32, 16>>}

\* sdl_update(fb_dev, opaque, x, y, w, h): the texture update it performs.
sdl_update(r) ==
  [Step("sdl_update", NoEvent, <<>>) EXCEPT
     !.rect = r,
     !.start = fb_surface.pitch * r[2] + r[1],
     !.pitch = fb_surface.pitch,
     !.tex = texture]

\* ---------------------------------------------------------------------------
\* Refresh driver
\* ---------------------------------------------------------------------------

\* sdl_refresh with no framebuffer device: returns at once.
RefreshIdle ==
  /\ pc = "main"
  /\ ~fb_dev.present
  /\ last' = Step("sdl_refresh_nofb", NoEvent, <<>>)
  /\ UNCHANGED <<pc, exit_status, fb_dev, mouse_abs, evq, initVars,
                 displayVars, resizes, inputVars, audioVars>>

\* sdl_refresh with a device: first sdl_update_fb_surface.
RefreshEnsure ==
  /\ pc = "main"
  /\ fb_dev.present
  /\ sdl_update_fb_surface
  /\ last' = Step("sdl_update_fb_surface", NoEvent, <<>>)
  /\ UNCHANGED <<fb_dev, mouse_abs, evq, initVars, resizes, inputVars,
                 audioVars>>

\* m->fb_dev->refresh calls sdl_update for one more dirty rectangle.
Present ==
  /\ pc = "present"
  /\ \E r \in DirtyRects : last' = sdl_update(r)
  /\ UNCHANGED <<pc, exit_status, fb_dev, mouse_abs, evq, initVars,
                 displayVars, resizes, inputVars, audioVars>>

\* m->fb_dev->refresh returns; the event loop starts.
RefreshDone ==
  /\ pc = "present"
  /\ pc' = "drain"
  /\ last' = Step("refresh_return", NoEvent, <<>>)
  /\ UNCHANGED <<exit_status, fb_dev, mouse_abs, evq, initVars, displayVars,
                 resizes, inputVars, audioVars>>

PollEmpty_one_event_per_tick ==
  /\ pc = "drain"
  /\ last.op \in {"sdl_handle_key_event", "sdl_handle_mouse_motion_event",
                  "mouse_button"} \/ evq = <<>>
  /\ pc' = "main"
  /\ last' = Step("sdl_refresh_return", NoEvent, <<>>)
  /\ UNCHANGED <<exit_status, fb_dev, mouse_abs, evq, initVars, displayVars,
                 resizes, inputVars, audioVars>>

\* SDL_PollEvent returns 0: sdl_refresh returns.
PollEmpty ==
  /\ pc = "drain"
  /\ evq = <<>>
  /\ pc' = "main"
  /\ last' = Step("sdl_refresh_return", NoEvent, <<>>)
  /\ UNCHANGED <<exit_status, fb_dev, mouse_abs, evq, initVars, displayVars,
                 resizes, inputVars, audioVars>>

\* SDL_PollEvent returns the next event of the given types.
Polled(types) == pc = "drain" /\ evq # <<>> /\ Head(evq).type \in types

\* case SDL_KEYDOWN, SDL_KEYUP: sdl_handle_key_event(&ev->key, m)
HandleKey ==
  /\ Polled({"SDL_KEYDOWN", "SDL_KEYUP"})
  /\ \E c \in sdl_get_keycode(Head(evq).scancode) :
       LET r == sdl_handle_key_event(Head(evq), c.ret, key_pressed)
       IN /\ kc' = c
          /\ key_pressed' = r.key_pressed
          /\ vm_keys_down' = VmKeysAfter(vm_keys_down, r.sent)
          /\ reset_run' = IF Head(evq).type = "SDL_KEYDOWN" THEN 0
                          ELSE IF c.ret # 0 THEN reset_run
                          ELSE IF reset_run < MaxResetRun THEN reset_run + 1
                          ELSE MaxResetRun
          /\ last' = Step("sdl_handle_key_event", Head(evq), r.sent)
  /\ evq' = Tail(evq)
  /\ UNCHANGED <<pc, exit_status, fb_dev, mouse_abs, initVars, displayVars,
                 resizes, audioVars>>

\* case SDL_MOUSEMOTION: sdl_handle_mouse_motion_event(ev, m)
HandleMotion ==
  /\ Polled({"SDL_MOUSEMOTION"})
  /\ last' = Step("sdl_handle_mouse_motion_event", Head(evq),
                  <<sdl_handle_mouse_motion_event(Head(evq), mouse_abs,
                                                  screen_width, screen_height)>>)
  /\ evq' = Tail(evq)
  /\ UNCHANGED <<pc, exit_status, fb_dev, mouse_abs, initVars, displayVars,
                 resizes, inputVars, audioVars>>

HandleButton_forwards ==
  /\ Polled({"SDL_MOUSEBUTTONDOWN", "SDL_MOUSEBUTTONUP"})
  /\ last' = Step("mouse_button", Head(evq),
                  <<sdl_send_mouse_event(0, 0, 0, Head(evq).state, mouse_abs,
                                         screen_width, screen_height)>>)
  /\ evq' = Tail(evq)
  /\ UNCHANGED <<pc, exit_status, fb_dev, mouse_abs, initVars, displayVars,
                 resizes, inputVars, audioVars>>

\* case SDL_MOUSEBUTTONDOWN, SDL_MOUSEBUTTONUP: break
HandleButton ==
  /\ Polled({"SDL_MOUSEBUTTONDOWN", "SDL_MOUSEBUTTONUP"})
  /\ last' = Step("mouse_button", Head(evq), <<>>)
  /\ evq' = Tail(evq)
  /\ UNCHANGED <<pc, exit_status, fb_dev, mouse_abs, initVars, displayVars,
                 resizes, inputVars, audioVars>>

HandleQuit_continue ==
  /\ Polled({"SDL_QUIT"})
  /\ last' = Step("quit", Head(evq), <<>>)
  /\ evq' = Tail(evq)
  /\ UNCHANGED <<pc, exit_status, fb_dev, mouse_abs, initVars, displayVars,
                 resizes, inputVars, audioVars>>

\* case SDL_QUIT: exit(0)
HandleQuit ==
  /\ Polled({"SDL_QUIT"})
  /\ pc' = "exited"
  /\ exit_status' = 0
  /\ last' = Step("quit", Head(evq), <<>>)
  /\ evq' = Tail(evq)
  /\ UNCHANGED <<fb_dev, mouse_abs, initVars, displayVars, resizes, inputVars,
                 audioVars>>

\* Host events of the refresh driver's runs.
DriverEvents ==
  { KeyEvent("SDL_KEYDOWN", SDL_SCANCODE_A),
    MotionEvent(320, 240, 3, -2, 1),
    HostEvent("SDL_MOUSEBUTTONDOWN", 0, 320, 240, 0, 0, 1),
    HostEvent("SDL_MOUSEBUTTONUP", 0, 320, 240, 0, 0, 0),
    HostEvent("SDL_QUIT", 0, 0, 0, 0, 0, 0) }

Next ==
  \/ GuestAttachFb
  \/ GuestResize
  \/ GuestSetMouseMode
  \/ HostPost(DriverEvents)
  \/ RefreshIdle
  \/ RefreshEnsure
  \/ Present
  \/ RefreshDone
  \/ PollEmpty
  \/ HandleKey
  \/ HandleMotion
  \/ HandleButton
  \/ HandleQuit

Spec == Init /\ [][Next]_vars

\* The refresh driver when the machine's main loop keeps calling sdl_refresh
\* and every call runs on: the device's refresh returns and the event loop
\* handles the event it polled.
SpecLive ==
  Init /\ [][Next]_vars
    /\ WF_vars(RefreshIdle) /\ WF_vars(RefreshEnsure) /\ WF_vars(RefreshDone)
    /\ WF_vars(PollEmpty) /\ WF_vars(HandleKey) /\ WF_vars(HandleMotion)
    /\ WF_vars(HandleButton) /\ WF_vars(HandleQuit)

\* ---------------------------------------------------------------------------
\* Runs of the input dispatcher alone: key events only
\* ---------------------------------------------------------------------------

KeyScancodes ==
  { SDL_SCANCODE_UNKNOWN, SDL_SCANCODE_A, SDL_SCANCODE_RETURN,
    SDL_SCANCODE_RETURN2, SDL_SCANCODE_CAPSLOCK, SDL_SCANCODE_NUMLOCKCLEAR }

KeyEvents ==
  { KeyEvent(t, s) : t \in {"SDL_KEYDOWN", "SDL_KEYUP"}, s \in KeyScancodes }

NextKeys ==
  \/ GuestAttachFb
  \/ HostPost(KeyEvents)
  \/ RefreshIdle
  \/ RefreshEnsure
  \/ RefreshDone
  \/ PollEmpty
  \/ HandleKey

SpecKeys == Init /\ [][NextKeys]_vars

\* ---------------------------------------------------------------------------
\* Runs of the pointer path: motion events only, several window sizes
\* ---------------------------------------------------------------------------

\* Arguments of sdl_init.
MouseWindows == {<<1, 1>>, <<640, 480>>, <<16384, 16384>>}

\* Motion events: window coordinates, relative motion, button state.
MotionEvents ==
  { MotionEvent(0, 0, 0, 0, 0),
    MotionEvent(1, 1, 1, 1, 1),
    MotionEvent(639, 479, 3, -2, 2),
    MotionEvent(320, 479, -3, 2, 4),
    MotionEvent(640, 480, 1, 0, 7),
    MotionEvent(16383, 16383, 0, -1, 8),
    MotionEvent(-1, -1, -1, -1, 0) }

InitMouse == InitWith(MouseWindows)

NextMouse ==
  \/ GuestAttachFb
  \/ GuestSetMouseMode
  \/ HostPost(MotionEvents)
  \/ RefreshIdle
  \/ RefreshEnsure
  \/ RefreshDone
  \/ PollEmpty
  \/ HandleMotion

SpecMouse == InitMouse /\ [][NextMouse]_vars

\* ---------------------------------------------------------------------------
\* Scancode translation alone
\* ---------------------------------------------------------------------------

\* Values of ev->keysym.scancode tried: the table's domain and a margin on
\* either side of it.
ScanProbes == (-MaxScanProbe)..(NR_KEYS - 1 + MaxScanProbe)

GetKeycode ==
  /\ \E scancode \in ScanProbes : kc' \in sdl_get_keycode(scancode)
  /\ UNCHANGED <<pc, exit_status, fb_dev, mouse_abs, evq, initVars,
                 displayVars, resizes, key_pressed, vm_keys_down,
                 reset_run, last, audioVars>>

NextKeycode == GetKeycode

SpecKeycode == Init /\ [][NextKeycode]_vars

\* ---------------------------------------------------------------------------
\* Tone generator: beep() on the main context, audio_callback on SDL's audio
\* thread
\* ---------------------------------------------------------------------------

\* Samples per callback buffer (_length / sizeof(Sint16)).
BufSamples == 3
\* The callback is not started once v exceeds this many turns of have.freq.
MaxTurns == 2

\* Arguments of beep(): silence, a quarter and a half of the sample rate.
ToneFreqs == {0, 11025, 22050}

\* sin(v * 2 * M_PI / have.freq) for v a multiple of have.freq / 4.
SinQuarterTurns(phase, rate) ==
  LET q == (phase % rate) \div (rate \div 4)
  IN IF q = 1 THEN 1 ELSE IF q = 3 THEN -1 ELSE 0

\* stream[i] = AMPLITUDE * sin(v * 2 * M_PI / have.freq)
Sample(phase) == AMPLITUDE * SinQuarterTurns(phase, have.freq)

\* SDL_LockAudioDevice(id): locks the device if id is an open device and
\* does nothing otherwise.
LockAudioDevice(id, who) ==
  IF id \in DOMAIN audio_lock
  THEN /\ audio_lock[id] = "none"
       /\ audio_lock' = [audio_lock EXCEPT ![id] = who]
  ELSE UNCHANGED audio_lock

UnlockAudioDevice(id) ==
  IF id \in DOMAIN audio_lock
  THEN audio_lock' = [audio_lock EXCEPT ![id] = "none"]
  ELSE UNCHANGED audio_lock

mainVars ==
  <<exit_status, fb_dev, mouse_abs, evq, initVars, displayVars, resizes,
    inputVars, last>>

\* beep(freq): SDL_LockAudio()
BeepLock ==
  /\ pc = "main"
  /\ \E freq \in ToneFreqs : beep_arg' = freq
  /\ LockAudioDevice(LegacyAudioDevice, "main")
  /\ pc' = "beep_write"
  /\ UNCHANGED <<mainVars, beepfreq, v, have, cb>>

BeepWrite_resets_phase ==
  /\ pc = "beep_write"
  /\ beepfreq' = beep_arg
  /\ v' = 0
  /\ pc' = "beep_unlock"
  /\ UNCHANGED <<mainVars, beep_arg, have, audio_lock, cb>>

\* beepfreq = freq
BeepWrite ==
  /\ pc = "beep_write"
  /\ beepfreq' = beep_arg
  /\ pc' = "beep_unlock"
  /\ UNCHANGED <<mainVars, beep_arg, v, have, audio_lock, cb>>

\* SDL_UnlockAudio()
BeepUnlock ==
  /\ pc = "beep_unlock"
  /\ UnlockAudioDevice(LegacyAudioDevice)
  /\ pc' = "main"
  /\ UNCHANGED <<mainVars, beepfreq, beep_arg, v, have, cb>>

\* SDL's audio thread takes the lock of device dev and calls audio_callback.
CallbackEnter ==
  /\ ~cb.running
  /\ v <= MaxTurns * have.freq
  /\ LockAudioDevice(dev, "audio")
  /\ cb' = [running |-> TRUE, i |-> 0, stream |-> <<>>, reads |-> {},
            v0 |-> v]
  /\ UNCHANGED <<pc, mainVars, beepfreq, beep_arg, v, have>>

\* One iteration of audio_callback's loop.
CallbackSample ==
  /\ cb.running
  /\ cb.i < BufSamples
  /\ cb' = [cb EXCEPT !.i = cb.i + 1,
                      !.stream = Append(cb.stream, Sample(v)),
                      !.reads = cb.reads \cup {beepfreq}]
  /\ v' = v + beepfreq
  /\ UNCHANGED <<pc, mainVars, beepfreq, beep_arg, have, audio_lock>>

\* audio_callback returns and the audio thread releases the device's lock.
CallbackReturn ==
  /\ cb.running
  /\ cb.i = BufSamples
  /\ cb' = [cb EXCEPT !.running = FALSE]
  /\ UnlockAudioDevice(dev)
  /\ UNCHANGED <<pc, mainVars, beepfreq, beep_arg, v, have>>

NextTone ==
  \/ BeepLock
  \/ BeepWrite
  \/ BeepUnlock
  \/ CallbackEnter
  \/ CallbackSample
  \/ CallbackReturn

SpecTone == Init /\ [][NextTone]_vars

\* The interleavings in which no beep() call overlaps a callback invocation.
NextToneSerial ==
  \/ BeepLock /\ ~cb.running
  \/ BeepWrite
  \/ BeepUnlock
  \/ CallbackEnter /\ pc = "main"
  \/ CallbackSample
  \/ CallbackReturn

SpecToneSerial == Init /\ [][NextToneSerial]_vars

\* ---------------------------------------------------------------------------
\* Properties
\* ---------------------------------------------------------------------------

\* C1: for every guest keycode k, key_pressed[k] is true exactly when the last
\* key event delivered to the guest for k was a key-down.
C1_PressedIffGuestDown ==
  /\ vm_keys_down \subseteq DOMAIN key_pressed
  /\ \A k \in DOMAIN key_pressed : key_pressed[k] <=> (k \in vm_keys_down)

C1_Witness ==
  /\ last.op = "sdl_handle_key_event"
  /\ last.ev = KeyEvent("SDL_KEYUP", SDL_SCANCODE_A)
  /\ last.sent = <<GuestKey(FALSE, KEY_A)>>
  /\ key_pressed[KEY_ENTER]
  /\ ~key_pressed[KEY_A]

\* A key-release whose scancode translates to 0 is taken from the queue.
ResetSignal ==
  /\ Polled({"SDL_KEYUP"})
  /\ evq' = Tail(evq)
  /\ kc'.ret = 0

\* C2: a key-release event with an unmapped scancode sends exactly one release
\* for each keycode marked pressed, in ascending keycode order, and nothing
\* else, and leaves key_pressed all-false.
C2_ResetReleasesAll ==
  [][ResetSignal =>
       LET s == last'.sent
       IN /\ \A n \in 1..Len(s) :
               s[n].kind = "key" /\ ~s[n].down /\ s[n].code \in DOMAIN key_pressed
               /\ key_pressed[s[n].code]
          /\ \A k \in DOMAIN key_pressed :
               key_pressed[k] => \E n \in 1..Len(s) : s[n].code = k
          /\ \A m, n \in 1..Len(s) : m < n => s[m].code < s[n].code
          /\ \A k \in DOMAIN key_pressed : ~key_pressed'[k]]_vars

C2_Witness ==
  /\ last.op = "sdl_handle_key_event"
  /\ last.ev = KeyEvent("SDL_KEYUP", SDL_SCANCODE_UNKNOWN)
  /\ kc.ret = 0
  /\ last.sent = <<GuestKey(FALSE, KEY_ENTER), GuestKey(FALSE, KEY_A)>>
  /\ \A k \in DOMAIN key_pressed : ~key_pressed[k]

\* C3: a key event, down or up, whose scancode translates to Caps Lock (0x3a)
\* or Num Lock (0x45) delivers exactly a press of that keycode followed by its
\* release.
C3_LockKeysPressRelease ==
  (last.op = "sdl_handle_key_event" /\ kc.ret \in {KEY_CAPSLOCK, KEY_NUMLOCK})
    => last.sent = <<GuestKey(TRUE, kc.ret), GuestKey(FALSE, kc.ret)>>

C3_Witness ==
  /\ last.op = "sdl_handle_key_event"
  /\ last.ev = KeyEvent("SDL_KEYUP", SDL_SCANCODE_NUMLOCKCLEAR)
  /\ kc.ret = 69
  /\ last.sent = <<GuestKey(TRUE, 69), GuestKey(FALSE, 69)>>

\* The event loop takes a quit event from the queue.
QuitDequeued == Polled({"SDL_QUIT"}) /\ evq' = Tail(evq)

\* C4: when the drain dequeues a quit event the process exits with status 0,
\* delivering nothing; once exited nothing more happens: no queued event is
\* delivered and no tick runs.
C4_QuitTerminates ==
  [][/\ QuitDequeued =>
          /\ pc' = "exited"
          /\ exit_status' = 0
          /\ last'.sent = <<>>
          /\ UNCHANGED <<inputVars, displayVars>>
     /\ pc = "exited" => UNCHANGED vars]_vars

C4_Witness ==
  /\ pc = "exited"
  /\ exit_status = 0
  /\ last.op = "quit"
  /\ evq # <<>>
  /\ Head(evq).type = "SDL_KEYDOWN"

\* C5: whenever sdl_update runs, the cached width, height and stride and the
\* pitch of the surface it reads through are the guest device's current ones.
C5_PresentUsesCurrentGeometry ==
  /\ pc = "present" =>
       /\ fb_width = fb_dev.width
       /\ fb_height = fb_dev.height
       /\ fb_stride = fb_dev.stride
       /\ fb_surface.ptr # 0
       /\ fb_surface.pitch = fb_dev.stride
  /\ last.op = "sdl_update" =>
       /\ pc = "present"
       /\ last.pitch = fb_dev.stride
       /\ last.start = fb_dev.stride * last.rect[2] + last.rect[1]

C5_Witness ==
  /\ last.op = "sdl_update"
  /\ resizes = 1
  /\ last.pitch = fb_dev.stride
  /\ last.rect = <<16, 8, 32, 16>>

\* C6: beep's write of beepfreq excludes the audio callback: no callback
\* invocation is in progress while beep is between SDL_LockAudio and
\* SDL_UnlockAudio.
C6_BeepExcludesCallback ==
  pc \in {"beep_write", "beep_unlock"} => ~cb.running

\* C7: after beep(0) has returned, a callback invocation that ran with
\* beepfreq 0 throughout has filled its whole buffer with zero samples.
C7_SilenceAfterZero ==
  (/\ pc = "main"
   /\ beep_arg = 0
   /\ ~cb.running
   /\ cb.i = BufSamples
   /\ cb.reads = {0})
    => \A n \in 1..Len(cb.stream) : cb.stream[n] = 0

\* A motion event is taken from the queue while the pointer is absolute.
AbsoluteMotion ==
  /\ Polled({"SDL_MOUSEMOTION"})
  /\ evq' = Tail(evq)
  /\ mouse_abs

\* C8: in absolute mode a motion event at window pixel (x, y) is delivered as
\* (floor(x*32768/W), floor(y*32768/H)) for the window's size (W, H); (0, 0)
\* maps to (0, 0) and every pixel inside the window maps into 0..32767.
C8_AbsoluteScaling ==
  [][AbsoluteMotion =>
       LET e == Head(evq)
           g == last'.sent[1]
       IN /\ Len(last'.sent) = 1
          /\ g.kind = "mouse"
          /\ e.x >= 0 => g.x = (e.x * 32768) \div window.w
          /\ e.y >= 0 => g.y = (e.y * 32768) \div window.h
          /\ (e.x = 0 /\ e.y = 0) => (g.x = 0 /\ g.y = 0)
          /\ (e.x >= 0 /\ e.x < window.w /\ e.y >= 0 /\ e.y < window.h)
               => (g.x \in 0..32767 /\ g.y \in 0..32767)]_vars

C8_Witness ==
  /\ last.op = "sdl_handle_mouse_motion_event"
  /\ window = [w |-> 640, h |-> 480]
  /\ last.ev.x = 639 /\ last.ev.y = 479
  /\ last.sent[1].x = 32716 /\ last.sent[1].y = 32699

\* C9: sdl_get_keycode returns 0 for every scancode outside the table's
\* bounds, below 0 included, and indexes keymap only inside [0, NR_KEYS).
C9_OutOfRangeUnmapped ==
  /\ kc.scancode \notin 0..(NR_KEYS - 1) => kc.ret = 0
  /\ kc.indexed => kc.index \in 0..(NR_KEYS - 1)

\* C10: BACKSLASH, NONUSHASH and NONUSBACKSLASH translate to the guest
\* backslash, KP_EQUALS and KP_EQUALSAS400 to the guest keypad-equals, RETURN
\* and RETURN2 to the guest enter, and KP_ENTER to a keycode other than enter.
C10_Collapses ==
  /\ kc.scancode \in {SDL_SCANCODE_BACKSLASH, SDL_SCANCODE_NONUSHASH,
                      SDL_SCANCODE_NONUSBACKSLASH} => kc.ret = KEY_BACKSLASH
  /\ kc.scancode \in {SDL_SCANCODE_KP_EQUALS, SDL_SCANCODE_KP_EQUALSAS400}
       => kc.ret = KEY_KPEQUAL
  /\ kc.scancode \in {SDL_SCANCODE_RETURN, SDL_SCANCODE_RETURN2}
       => kc.ret = KEY_ENTER
  /\ kc.scancode = SDL_SCANCODE_KP_ENTER
       => (kc.ret = KEY_KPENTER /\ kc.ret # KEY_ENTER)

C10_Witness ==
  /\ kc.scancode = SDL_SCANCODE_RETURN2
  /\ kc.indexed
  /\ kc.ret = KEY_ENTER
\* C11: a tick with no framebuffer device changes nothing and delivers
\* nothing; a tick with a device runs sdl_update_fb_surface, then the device's
\* refresh with its sdl_update calls, then the drain of host events, in this
\* order, and returns from the drain only when the event queue is empty.
C11_TickOrder ==
  [][/\ ~fb_dev.present =>
          /\ pc' = pc
          /\ exit_status' = exit_status
          /\ UNCHANGED <<displayVars, inputVars>>
          /\ Len(evq') >= Len(evq)
          /\ last'.sent = <<>>
     /\ pc' # pc =>
          \/ /\ pc = "main" /\ pc' = "present"
             /\ fb_dev.present
             /\ fb_surface'.ptr # 0
             /\ <<fb_width', fb_height', fb_stride'>>
                  = <<fb_dev.width, fb_dev.height, fb_dev.stride>>
          \/ pc = "main" /\ pc' = "exited" /\ exit_status' = 1
          \/ pc = "present" /\ pc' = "drain"
          \/ pc = "drain" /\ pc' = "main" /\ evq = <<>> /\ evq' = <<>>
          \/ pc = "drain" /\ pc' = "exited" /\ Head(evq).type = "SDL_QUIT"
     /\ (last' # last /\ last'.op = "sdl_update") =>
          pc = "present" /\ pc' = "present"
     /\ displayVars' # displayVars => pc = "main"
     /\ (Len(evq') < Len(evq) \/ (last' # last /\ last'.sent # <<>>)) =>
          pc = "drain"]_vars

C11_Witness ==
  /\ pc = "main"
  /\ last.op = "sdl_refresh_return"
  /\ evq = <<>>
  /\ fb_surface.ptr # 0
  /\ KEY_A \in vm_keys_down
\* A quit event waits in the host event queue.
QuitQueued == \E n \in 1..Len(evq) : evq[n].type = "SDL_QUIT"

\* C12: every quit event placed in the host event queue eventually leads to
\* process termination while refresh ticks keep being invoked, whether or not
\* a guest framebuffer device is configured.
C12_QuitLeadsToExit == QuitQueued ~> (pc = "exited")

\* C12, amended: with a guest framebuffer device configured, a queued quit
\* event eventually leads to process termination.
C12_QuitLeadsToExitWhenActive ==
  (fb_dev.present /\ QuitQueued) ~> (pc = "exited")

C12_Witness ==
  /\ pc = "exited"
  /\ exit_status = 0
  /\ fb_dev.present
  /\ last.op = "quit"
  /\ evq = <<>>
\* C13: at most one surface, one renderer and one texture are live at any
\* time, and the ones held were all created for the same geometry: a geometry
\* change releases the old three before the new ones are created.
C13_OneResourceSetPerEpoch ==
  /\ live.surface <= 1
  /\ live.renderer <= 1
  /\ live.texture <= 1
  /\ (fb_surface.ptr # 0 /\ renderer.ptr # 0) => renderer.ptr = fb_surface.ptr
  /\ (fb_surface.ptr # 0 /\ texture.ptr # 0) => texture.ptr = fb_surface.ptr
\* sdl_refresh calls sdl_update_fb_surface.
EnsureCall == pc = "main" /\ fb_dev.present /\ pc' # "main"

\* C14: a call of sdl_update_fb_surface either returns with surface, renderer
\* and texture all non-null and the cached geometry equal to the guest's, or
\* ends the process with status 1 after a creation returned NULL.
C14_AllValidOrExit ==
  [][EnsureCall =>
       \/ /\ pc' = "present"
          /\ exit_status' = -1
          /\ fb_surface'.ptr # 0 /\ renderer'.ptr # 0 /\ texture'.ptr # 0
          /\ <<fb_width', fb_height', fb_stride'>>
               = <<fb_dev.width, fb_dev.height, fb_dev.stride>>
       \/ /\ pc' = "exited"
          /\ exit_status' = 1
          /\ fb_surface'.ptr = 0 \/ renderer'.ptr = 0 \/ texture'.ptr = 0]_vars

C14_Witness ==
  /\ pc = "exited"
  /\ exit_status = 1
  /\ last.op = "sdl_update_fb_surface"
  /\ fb_surface.ptr # 0
  /\ renderer.ptr # 0
  /\ texture.ptr = 0
\* A key-press whose scancode translates to 0 is taken from the queue.
UnmappedPress ==
  /\ Polled({"SDL_KEYDOWN"})
  /\ evq' = Tail(evq)
  /\ kc'.ret = 0

\* C15: a key-press event whose scancode translates to 0 delivers no event to
\* the guest and leaves key_pressed unchanged.
C15_UnmappedPressIgnored ==
  [][UnmappedPress =>
       /\ last'.sent = <<>>
       /\ key_pressed' = key_pressed
       /\ vm_keys_down' = vm_keys_down]_vars

C15_Witness ==
  /\ last.op = "sdl_handle_key_event"
  /\ last.ev = KeyEvent("SDL_KEYDOWN", SDL_SCANCODE_UNKNOWN)
  /\ kc.ret = 0
  /\ last.sent = <<>>
  /\ key_pressed[KEY_A]
  /\ KEY_A \in vm_keys_down
\* The event loop takes a mouse-button event from the queue.
ButtonDequeued ==
  /\ Polled({"SDL_MOUSEBUTTONDOWN", "SDL_MOUSEBUTTONUP"})
  /\ evq' = Tail(evq)

\* The guest button mask of an SDL button-state bitmask: left 1, right 2,
\* middle 4.
GuestButtons(state) ==
  (IF state % 2 = 1 THEN 1 ELSE 0)
    + (IF (state \div 4) % 2 = 1 THEN 2 ELSE 0)
    + (IF (state \div 2) % 2 = 1 THEN 4 ELSE 0)

\* C16: a host mouse-button-down or -up event delivers nothing to the guest and
\* changes no dispatcher state; every mouse event the guest receives comes from
\* a motion event and carries the button mask of that event's state bitmask.
C16_ButtonEventsIgnored ==
  [][/\ ButtonDequeued =>
          /\ last'.sent = <<>>
          /\ UNCHANGED <<pc, exit_status, mouse_abs, screen_width,
                         screen_height, inputVars, displayVars>>
     /\ Len(evq') < Len(evq) =>
          \A n \in 1..Len(last'.sent) :
            last'.sent[n].kind = "mouse" =>
              /\ Polled({"SDL_MOUSEMOTION"})
              /\ last'.sent[n].buttons = GuestButtons(Head(evq).state)]_vars

C16_Witness ==
  /\ last.op = "mouse_button"
  /\ last.ev.type = "SDL_MOUSEBUTTONDOWN"
  /\ last.ev.state = 1
  /\ last.sent = <<>>
  /\ pc = "drain"
\* C17: the phase accumulator v is modified only by audio_callback: no step of
\* beep changes it, it changes only in an iteration of the callback's loop, by
\* the frequency read there, and a callback that has generated cb.i samples
\* while the frequency was f has advanced v by cb.i * f from its value v0 at
\* the start of the invocation, a value it keeps after the callback returns.
C17_PhaseOwnedByCallback ==
  [][/\ (pc' # pc \/ beepfreq' # beepfreq) => v' = v
     /\ v' # v =>
          /\ cb.running /\ cb'.running
          /\ cb'.i = cb.i + 1
          /\ v' = v + beepfreq
          /\ UNCHANGED <<pc, beepfreq>>
     /\ cb'.running # cb.running => v' = v
     /\ \A f \in ToneFreqs :
          cb'.reads \subseteq {f} => v' = cb'.v0 + cb'.i * f]_vars

C17_Witness ==
  /\ pc = "main"
  /\ beepfreq = 22050
  /\ ~cb.running
  /\ cb.i = BufSamples
  /\ cb.reads = {11025}
  /\ cb.v0 > 0
  /\ v = cb.v0 + BufSamples * 11025
\* C18: the key reset is idempotent: a reset signal that follows another with
\* no key-press in between delivers nothing to the guest and leaves
\* key_pressed all-false; no reset delivers a release for a keycode whose
\* pressed flag is false.
C18_ResetIdempotent ==
  [][ResetSignal =>
       /\ \A n \in 1..Len(last'.sent) :
            /\ last'.sent[n].code \in DOMAIN key_pressed
            /\ key_pressed[last'.sent[n].code]
       /\ reset_run >= 1 =>
            /\ last'.sent = <<>>
            /\ vm_keys_down' = vm_keys_down
            /\ \A k \in DOMAIN key_pressed : ~key_pressed[k] /\ ~key_pressed'[k]]_vars

C18_Witness ==
  /\ reset_run = 2
  /\ last.op = "sdl_handle_key_event"
  /\ last.ev = KeyEvent("SDL_KEYUP", SDL_SCANCODE_UNKNOWN)
  /\ kc.ret = 0
  /\ last.sent = <<>>
  /\ vm_keys_down = {}
  /\ \A k \in DOMAIN key_pressed : ~key_pressed[k]
\* A key event whose scancode translates to Caps Lock or Num Lock is taken from
\* the queue.
LockKeyDequeued ==
  /\ Polled({"SDL_KEYDOWN", "SDL_KEYUP"})
  /\ evq' = Tail(evq)
  /\ kc'.ret \in {KEY_CAPSLOCK, KEY_NUMLOCK}

\* C19: a host event for Caps Lock or Num Lock leaves key_pressed unchanged;
\* the pressed flags of keycodes 0x3a and 0x45 are false after every step, and
\* no reset signal delivers a release for either keycode.
C19_LockKeysNeverPressed ==
  [][/\ LockKeyDequeued => key_pressed' = key_pressed
     /\ ~key_pressed'[KEY_CAPSLOCK] /\ ~key_pressed'[KEY_NUMLOCK]
     /\ ResetSignal =>
          \A n \in 1..Len(last'.sent) :
            last'.sent[n].code \notin {KEY_CAPSLOCK, KEY_NUMLOCK}]_vars

C19_Witness ==
  /\ last.op = "sdl_handle_key_event"
  /\ last.ev = KeyEvent("SDL_KEYDOWN", SDL_SCANCODE_CAPSLOCK)
  /\ kc.ret = KEY_CAPSLOCK
  /\ last.sent = <<GuestKey(TRUE, KEY_CAPSLOCK), GuestKey(FALSE, KEY_CAPSLOCK)>>
  /\ ~key_pressed[KEY_CAPSLOCK]
  /\ key_pressed[KEY_A]
  /\ KEY_CAPSLOCK \notin vm_keys_down
====
